---- MODULE Spec2Model ----
(***************************************************************************)
(* Model of src/researcher/task.py: the CompanyProfile schema (a tree of   *)
(* pydantic BaseModel classes), its validation (model_validate, default,   *)
(* i.e. lax, mode: the module sets no model_config), its serialisation     *)
(* (model_dump) and the module-level PreparedTask descriptor.              *)
(*                                                                         *)
(* Encoding.  A JSON-like value is a record tagged by k:                   *)
(*   null, int (n), float (n, in units of 1/Den), bool (b), str (s),       *)
(*   obj (f: field name -> value), list (e: sequence of values).           *)
(* A validated instance is tagged "model" (cls, f).  The Japanese          *)
(* prefecture strings of the source are written in ASCII romanisation      *)
(* with their suffix (Tokyo-to, Osaka-fu, Aomori-ken): the module text     *)
(* is ASCII only.  The English "Tokyo" stays a different string.           *)
(***************************************************************************)
EXTENDS Integers, Sequences, FiniteSets, TLC

\* ---------------------------------------------------------------- bounds
\* Floats are multiples of 1/Den: epsilon of the range checks is 1/Den.
Den == 2
\* Number of fields of the base document an input may override.
MaxEdits == 1
\* Number of concurrent validate calls of SpecConc.
NumCalls == 2

\* ---------------------------------------------------------------- values
Null == [k |-> "null"]
Int_(n) == [k |-> "int", n |-> n]
Float_(n) == [k |-> "float", n |-> n]
Bool_(b) == [k |-> "bool", b |-> b]
Str_(s) == [k |-> "str", s |-> s]
Obj_(f) == [k |-> "obj", f |-> f]
List_(e) == [k |-> "list", e |-> e]
Model_(cls, f) == [k |-> "model", cls |-> cls, f |-> f]

\* A whole number x as a float.
Whole(x) == Float_(x * Den)

\* ----------------------------------------------- strings (finite tables)
\* TLA+ strings are atomic, so what the parsers read off a string is given
\* by tables over the strings the inputs are drawn from.
\* int("...") of pydantic's lax int/float validators.
NumericStrings == {"0", "1", "1234"}
StrToInt(s) == CASE s = "0" -> 0 [] s = "1" -> 1 [] s = "1234" -> 1234
\* pydantic's lax bool validator.
TrueStrings == {"1", "true", "t", "yes", "y", "on"}
FalseStrings == {"0", "false", "f", "no", "n", "off"}
\* The strings of the input universe that begin with http:// or https://.
HttpStrings == {"http://example.com", "https://example.com/ir"}
StrUniverse ==
    NumericStrings \cup {"true", "abc", "ir.example.com/report.pdf", "X Corp",
                         "2025-03-31"} \cup HttpStrings

\* ------------------------------------------------------- field descriptors
\* One pydantic field: annotation (ty, opt, lits, sub) and Field(...) arguments
\* (req for "...", def for the default, ge/le).
F(name, ty, opt, req, def, hasGe, ge, hasLe, le, lits, sub) ==
    [name |-> name, ty |-> ty, opt |-> opt, req |-> req, def |-> def,
     hasGe |-> hasGe, ge |-> ge, hasLe |-> hasLe, le |-> le,
     lits |-> lits, sub |-> sub]

Factory(of) == [k |-> "factory", of |-> of]

StrReq(n) == F(n, "str", FALSE, TRUE, Null, FALSE, 0, FALSE, 0, {}, "")
StrOpt(n) == F(n, "str", TRUE, FALSE, Null, FALSE, 0, FALSE, 0, {}, "")
IntOpt(n, ge, le) == F(n, "int", TRUE, FALSE, Null, TRUE, ge, TRUE, le, {}, "")
IntOptGe(n, ge) == F(n, "int", TRUE, FALSE, Null, TRUE, ge, FALSE, 0, {}, "")
IntReq(n, ge, le) == F(n, "int", FALSE, TRUE, Null, TRUE, ge, TRUE, le, {}, "")
FloatOpt(n, ge, le) == F(n, "float", TRUE, FALSE, Null, TRUE, ge, TRUE, le, {}, "")
FloatOptGe(n, ge) == F(n, "float", TRUE, FALSE, Null, TRUE, ge, FALSE, 0, {}, "")
FloatReq(n, ge, le) == F(n, "float", FALSE, TRUE, Null, TRUE, ge, TRUE, le, {}, "")
FloatReqGe(n, ge) == F(n, "float", FALSE, TRUE, Null, TRUE, ge, FALSE, 0, {}, "")
BoolOpt(n, def) == F(n, "bool", TRUE, FALSE, def, FALSE, 0, FALSE, 0, {}, "")
LitReq(n, lits) == F(n, "literal", FALSE, TRUE, Null, FALSE, 0, FALSE, 0, lits, "")
LitOpt(n, lits) == F(n, "literal", TRUE, FALSE, Null, FALSE, 0, FALSE, 0, lits, "")
ModelReq(n, cls) == F(n, "model", FALSE, TRUE, Null, FALSE, 0, FALSE, 0, {}, cls)
ModelDef(n, cls) ==
    F(n, "model", FALSE, FALSE, Factory(cls), FALSE, 0, FALSE, 0, {}, cls)
ListOf(n, sub) ==
    F(n, "list", FALSE, FALSE, Factory("list"), FALSE, 0, FALSE, 0, {}, sub)

StrLits(S) == {Str_(s) : s \in S}
IntLits(S) == {Int_(n) : n \in S}

\* ------------------------------------------------------------ the schema
Prefectures ==
    {"Hokkaido", "Aomori-ken", "Iwate-ken", "Miyagi-ken", "Akita-ken",
     "Yamagata-ken", "Fukushima-ken", "Ibaraki-ken", "Tochigi-ken",
     "Gunma-ken", "Saitama-ken", "Chiba-ken", "Tokyo-to", "Kanagawa-ken",
     "Niigata-ken", "Toyama-ken", "Ishikawa-ken", "Fukui-ken",
     "Yamanashi-ken", "Nagano-ken", "Gifu-ken", "Shizuoka-ken", "Aichi-ken",
     "Mie-ken", "Shiga-ken", "Kyoto-fu", "Osaka-fu", "Hyogo-ken", "Nara-ken",
     "Wakayama-ken", "Tottori-ken", "Shimane-ken", "Okayama-ken",
     "Hiroshima-ken", "Yamaguchi-ken", "Tokushima-ken", "Kagawa-ken",
     "Ehime-ken", "Kochi-ken", "Fukuoka-ken", "Saga-ken", "Nagasaki-ken",
     "Kumamoto-ken", "Oita-ken", "Miyazaki-ken", "Kagoshima-ken",
     "Okinawa-ken", "Other"}
GroupPrefectures ==
    {"Hokkaido", "Aomori-ken", "Iwate-ken", "Miyagi-ken", "Akita-ken",
     "Yamagata-ken", "Fukushima-ken", "Ibaraki-ken", "Tochigi-ken",
     "Gunma-ken", "Saitama-ken", "Chiba-ken", "Tokyo-to", "Kanagawa-ken",
     "Niigata-ken", "Toyama-ken", "Ishikawa-ken", "Fukui-ken",
     "Yamanashi-ken", "Nagano-ken", "Gifu-ken", "Shizuoka-ken", "Aichi-ken",
     "Mie-ken", "Shiga-ken", "Kyoto-fu", "Osaka-fu", "Hyogo-ken", "Nara-ken",
     "Wakayama-ken", "Tottori-ken", "Shimane-ken", "Okayama-ken",
     "Hiroshima-ken", "Yamaguchi-ken", "Tokushima-ken", "Kagawa-ken",
     "Ehime-ken", "Kochi-ken", "Fukuoka-ken", "Saga-ken", "Nagasaki-ken",
     "Kumamoto-ken", "Oita-ken", "Miyazaki-ken", "Kagoshima-ken",
     "Okinawa-ken", "Other"}
Markets == {"Prime", "Standard", "Growth", "Non-listed"}

SegmentRatio ==
    << StrReq("name"), FloatReq("ratio", 0, 1) >>

SegmentAmount ==
    << StrReq("name"), FloatReqGe("amount_yen", 0) >>

FiscalPeriod ==
    << LitReq("period_type", StrLits({"annual", "quarter"})),
       IntReq("fiscal_year", 1900, 2100),
       LitOpt("quarter", IntLits({1, 2, 3, 4})),
       StrOpt("period_start"),
       StrOpt("period_end") >>

Executive ==
    << StrReq("name"), StrReq("title"), StrOpt("career_summary"),
       StrOpt("responsibility"), StrOpt("start_date"), StrOpt("end_date"),
       StrOpt("source_url") >>

CompanyBasic ==
    << StrReq("company_name"),
       IntOpt("ticker_code", 1000, 9999),
       LitOpt("market", StrLits(Markets)),
       StrOpt("corporate_number"),
       LitOpt("headquarters_pref", StrLits(Prefectures)),
       IntOpt("founded_year", 1600, 2100),
       IntOptGe("capital_yen", 0),
       IntOptGe("employees_consolidated", 0),
       ListOf("executives", "Executive"),
       LitOpt("accounting_standard", StrLits({"JGAAP", "IFRS", "USGAAP"})),
       IntOpt("fiscal_year_start_month", 1, 12),
       StrOpt("source_url") >>

FinancialRecord ==
    << ModelReq("period", "FiscalPeriod"),
       BoolOpt("is_consolidated", Bool_(TRUE)),
       BoolOpt("is_cumulative", Bool_(TRUE)),
       BoolOpt("restated", Bool_(FALSE)),
       FloatOptGe("revenue_yen", 0),
       FloatOptGe("op_income_yen", 0),
       FloatOptGe("ordinary_income_yen", 0),
       FloatOptGe("ebitda_yen", 0),
       FloatOptGe("net_income_yen", 0),
       FloatOptGe("eps_yen", 0),
       FloatOptGe("total_assets_yen", 0),
       FloatOptGe("net_assets_yen", 0),
       FloatOpt("equity_ratio", 0, 1),
       FloatOptGe("interest_bearing_debt_yen", 0),
       FloatOpt("roe", -1, 1),
       FloatOpt("roa", -1, 1),
       ListOf("segment_revenue_ratio", "SegmentRatio"),
       ListOf("segment_revenue_yen", "SegmentAmount"),
       StrOpt("notes"),
       StrOpt("source_url") >>

Financials ==
    << ListOf("records", "FinancialRecord"),
       StrOpt("source_url"),
       StrOpt("last_verified_at") >>

OrgSignal ==
    << LitOpt("event_type",
              StrLits({"EXECUTIVE_CHANGE", "DEPT_CREATED", "DX_APPOINTMENT",
                       "OTHER"})),
       StrReq("title"),
       StrOpt("announced_date"),
       StrOpt("source_url") >>

SocialAccount ==
    << LitReq("platform",
              StrLits({"X", "LinkedIn", "Instagram", "YouTube", "Facebook",
                       "TikTok", "Other"})),
       StrReq("url"),
       StrOpt("handle"),
       IntOptGe("followers", 0),
       StrOpt("last_post_date"),
       BoolOpt("active", Null),
       StrOpt("source_url") >>

Communications ==
    << ListOf("owned_media_urls", "str"),
       ListOf("social_accounts", "SocialAccount"),
       StrOpt("source_url"),
       StrOpt("last_verified_at") >>

Competitor ==
    << StrReq("name"),
       ListOf("areas", "str"),
       StrOpt("notes"),
       StrOpt("source_url") >>

GroupCompany ==
    << StrReq("name"),
       LitOpt("relation_type",
              StrLits({"subsidiary", "affiliate", "joint_venture", "other"})),
       FloatOpt("ownership_ratio", 0, 1),
       BoolOpt("is_listed", Null),
       IntOpt("ticker_code", 1000, 9999),
       LitOpt("market", StrLits(Markets)),
       StrOpt("corporate_number"),
       LitOpt("headquarters_pref", StrLits(GroupPrefectures)),
       IntOpt("founded_year", 1600, 2100),
       IntOptGe("capital_yen", 0),
       IntOptGe("employees", 0),
       StrOpt("business_summary"),
       StrOpt("notes"),
       StrOpt("source_url") >>

CompanyProfile ==
    << ModelReq("basic", "CompanyBasic"),
       ModelDef("financials", "Financials"),
       ListOf("org_signals", "OrgSignal"),
       ModelDef("communications", "Communications"),
       ListOf("competitors", "Competitor"),
       ListOf("group_companies", "GroupCompany"),
       StrOpt("source_url"),
       StrOpt("last_verified_at"),
       FloatOpt("confidence", 0, 1) >>

ClassSeq ==
    <<"SegmentRatio", "SegmentAmount", "FiscalPeriod", "Executive",
      "CompanyBasic", "FinancialRecord", "Financials", "OrgSignal",
      "SocialAccount", "Communications", "Competitor", "GroupCompany",
      "CompanyProfile">>
Classes == {ClassSeq[i] : i \in 1..Len(ClassSeq)}

\* The fields of a class, in declaration order.
Fields(cls) ==
    CASE cls = "SegmentRatio" -> SegmentRatio
      [] cls = "SegmentAmount" -> SegmentAmount
      [] cls = "FiscalPeriod" -> FiscalPeriod
      [] cls = "Executive" -> Executive
      [] cls = "CompanyBasic" -> CompanyBasic
      [] cls = "FinancialRecord" -> FinancialRecord
      [] cls = "Financials" -> Financials
      [] cls = "OrgSignal" -> OrgSignal
      [] cls = "SocialAccount" -> SocialAccount
      [] cls = "Communications" -> Communications
      [] cls = "Competitor" -> Competitor
      [] cls = "GroupCompany" -> GroupCompany
      [] cls = "CompanyProfile" -> CompanyProfile

\* The elements of a sequence, the names of a set of fields, and the field
\* of a given name.
Range(s) == {s[i] : i \in DOMAIN s}
NamesOf(fds) == {fd.name : fd \in fds}
Named(fds, name) == CHOOSE fd \in fds : fd.name = name
ByName(fds) == [n \in NamesOf(fds) |-> Named(fds, n)]

\* The fields of every class, by name.
FieldTable == [c \in Classes |-> ByName(Range(Fields(c)))]
FieldNames(cls) == DOMAIN FieldTable[cls]
FieldOf(cls, name) == FieldTable[cls][name]

\* ------------------------------------------------------------ validation
\* The outcome of validating one value: the validated value, or an error type.
Ok(v) == [ok |-> TRUE, val |-> v, type |-> ""]
Bad(t) == [ok |-> FALSE, val |-> Null, type |-> t]
Err(loc, type) == [loc |-> loc, type |-> type]

\* The name of list index i (1-based here, 0-based in an error's loc).
IdxName(i) ==
    CASE i = 1 -> "0" [] i = 2 -> "1" [] i = 3 -> "2" [] i = 4 -> "3"
      [] OTHER -> "n"

\* str: only a string is a string (pydantic v2 coerces no number to str).
ValidateStr(v) == IF v.k = "str" THEN Ok(v) ELSE Bad("string_type")

\* int, lax mode: bool, integral float and numeric string are converted.
CoerceInt(v) ==
    CASE v.k = "int" -> Ok(v)
      [] v.k = "bool" -> Ok(Int_(IF v.b THEN 1 ELSE 0))
      [] v.k = "float" ->
            IF v.n % Den = 0 THEN Ok(Int_(v.n \div Den))
            ELSE Bad("int_from_float")
      [] v.k = "str" ->
            IF v.s \in NumericStrings THEN Ok(Int_(StrToInt(v.s)))
            ELSE Bad("int_parsing")
      [] OTHER -> Bad("int_type")

\* float, lax mode: int, bool and numeric string are converted.
CoerceFloat(v) ==
    CASE v.k = "float" -> Ok(v)
      [] v.k = "int" -> Ok(Whole(v.n))
      [] v.k = "bool" -> Ok(Whole(IF v.b THEN 1 ELSE 0))
      [] v.k = "str" ->
            IF v.s \in NumericStrings THEN Ok(Whole(StrToInt(v.s)))
            ELSE Bad("float_parsing")
      [] OTHER -> Bad("float_type")

\* bool, lax mode: 0/1 and the yes/no strings are converted.
CoerceBool(v) ==
    CASE v.k = "bool" -> Ok(v)
      [] v.k = "int" ->
            IF v.n \in {0, 1} THEN Ok(Bool_(v.n = 1)) ELSE Bad("bool_parsing")
      [] v.k = "float" ->
            IF v.n \in {0, Den} THEN Ok(Bool_(v.n = Den))
            ELSE Bad("bool_parsing")
      [] v.k = "str" ->
            IF v.s \in TrueStrings THEN Ok(Bool_(TRUE))
            ELSE IF v.s \in FalseStrings THEN Ok(Bool_(FALSE))
            ELSE Bad("bool_parsing")
      [] OTHER -> Bad("bool_type")

\* Variant: a value outside the range is moved to the nearest bound.
ClampRange(fd, r, unit) ==
    IF ~r.ok THEN r
    ELSE IF fd.hasGe /\ r.val.n < fd.ge * unit
         THEN Ok([r.val EXCEPT !.n = fd.ge * unit])
    ELSE IF fd.hasLe /\ r.val.n > fd.le * unit
         THEN Ok([r.val EXCEPT !.n = fd.le * unit])
    ELSE r

\* Field(ge=..., le=...): both bounds inclusive, the value is kept as given.
\* unit is 1 for an int field and Den for a float field.
CheckRange(fd, r, unit) ==
    IF ~r.ok THEN r
    ELSE IF fd.hasGe /\ r.val.n < fd.ge * unit THEN Bad("greater_than_equal")
    ELSE IF fd.hasLe /\ r.val.n > fd.le * unit THEN Bad("less_than_equal")
    ELSE r

\* Variant: the field is typed str or int, not Literal.
OpenLiteral(fd, v) ==
    IF v.k \in {"str", "int"} THEN Ok(v) ELSE Bad("literal_error")

\* Literal[...]: the value is one of the listed values, of the same type.
ValidateLiteral(fd, v) == IF v \in fd.lits THEN Ok(v) ELSE Bad("literal_error")

\* A scalar field. Optional[...] lets null through.
ValidateScalar(fd, v) ==
    IF fd.opt /\ v = Null THEN Ok(Null)
    ELSE CASE fd.ty = "str" -> ValidateStr(v)
           [] fd.ty = "int" -> CheckRange(fd, CoerceInt(v), 1)
           [] fd.ty = "float" -> CheckRange(fd, CoerceFloat(v), Den)
           [] fd.ty = "bool" -> CoerceBool(v)
           [] fd.ty = "literal" -> ValidateLiteral(fd, v)

\* The errors of a sequence of outcomes, in order.
\* Variant: Field(None) in place of Field(default_factory=...).
NullDefault(fd) == IF fd.def.k = "factory" THEN Null ELSE fd.def

RECURSIVE AllErrors(_, _)
AllErrors(R, i) == IF i > Len(R) THEN <<>> ELSE R[i].errs \o AllErrors(R, i + 1)

\* A sequence whose items are each computed once (a function over 1..n is
\* evaluated anew at every application; a concatenation is not).
Computed(s) == s \o <<>>

RECURSIVE ValidateModel(_, _, _)
RECURSIVE ValidateValue(_, _, _)
RECURSIVE DefaultValue(_)

\* default / default_factory of a field that the input omits. A factory is
\* called once per validation: list() or the nested class's constructor.
DefaultValue(fd) ==
    IF fd.def.k = "factory"
    THEN IF fd.def.of = "list" THEN List_(<<>>)
         ELSE ValidateModel(fd.def.of, Obj_(<<>>), <<>>).val
    ELSE fd.def

\* One item of a list against the item type: [errs, val].
ValidateItem(fd, v, loc) ==
    IF fd.sub = "str"
    THEN LET r == ValidateStr(v) IN
         [errs |-> IF r.ok THEN <<>> ELSE <<Err(loc, r.type)>>, val |-> r.val]
    ELSE ValidateModel(fd.sub, v, loc)

\* One present value against its field: [errs, val]. Every item of a list is
\* visited.
ValidateValue(fd, v, loc) ==
    CASE fd.ty = "model" -> ValidateModel(fd.sub, v, loc)
      [] fd.ty = "list" ->
            IF v.k # "list" THEN [errs |-> <<Err(loc, "list_type")>>, val |-> Null]
            ELSE LET R == Computed([i \in 1..Len(v.e) |->
                               ValidateItem(fd, v.e[i], loc \o <<IdxName(i)>>)])
                 IN [errs |-> AllErrors(R, 1),
                     val |-> List_([i \in 1..Len(R) |-> R[i].val])]
      [] OTHER ->
            LET r == ValidateScalar(fd, v) IN
            [errs |-> IF r.ok THEN <<>> ELSE <<Err(loc, r.type)>>, val |-> r.val]

\* One field of an instance: the value given, else "missing" for a required
\* field, else the default.
FieldStep(fd, f, loc) ==
    IF fd.name \in DOMAIN f
    THEN ValidateValue(fd, f[fd.name], loc \o <<fd.name>>)
    ELSE IF fd.req
         THEN [errs |-> <<Err(loc \o <<fd.name>>, "missing")>>, val |-> Null]
         ELSE [errs |-> <<>>, val |-> DefaultValue(fd)]

\* The outcomes R of the fields fs put together: every error, and the
\* instance of the values.
Collect(cls, fs, R) ==
    [errs |-> AllErrors(R, 1),
     val |-> Model_(cls, [n \in NamesOf(Range(fs)) |->
                            R[CHOOSE i \in DOMAIN fs : fs[i].name = n].val])]
Instance(cls, fs, f, loc) ==
    Collect(cls, fs, Computed([i \in DOMAIN fs |-> FieldStep(fs[i], f, loc)]))

\* BaseModel validation of one instance: every field is visited, in
\* declaration order, and every field's errors are kept; keys that are not
\* fields are ignored (extra = "ignore", the default).
ValidateModel(cls, v, loc) ==
    IF v.k # "obj" THEN [errs |-> <<Err(loc, "model_type")>>, val |-> Null]
    ELSE Instance(cls, Fields(cls), v.f, loc)

\* cls.model_validate(doc): the instance, or the ValidationError with every
\* error found; no instance is returned with it.
ModelValidate(cls, doc) ==
    LET r == ValidateModel(cls, doc, <<>>) IN
    IF Len(r.errs) = 0
    THEN [ok |-> TRUE, value |-> r.val, errors |-> <<>>]
    ELSE [ok |-> FALSE, value |-> Null, errors |-> r.errs]

\* Variant: model_dump(exclude_none=True).
RECURSIVE DumpExcludeNone(_)
DumpExcludeNone(v) ==
    CASE v.k = "model" ->
            Obj_([n \in {m \in DOMAIN v.f : v.f[m] # Null} |->
                     DumpExcludeNone(v.f[n])])
      [] v.k = "list" -> List_([i \in 1..Len(v.e) |-> DumpExcludeNone(v.e[i])])
      [] OTHER -> v

\* model_dump(): the instance as plain nested dicts and lists.
RECURSIVE Serialize(_)
Serialize(v) ==
    CASE v.k = "model" -> Obj_([n \in DOMAIN v.f |-> Serialize(v.f[n])])
      [] v.k = "list" -> List_([i \in 1..Len(v.e) |-> Serialize(v.e[i])])
      [] OTHER -> v

\* ------------------------------------------------------- input documents
Override(f, n, v) == (n :> v) @@ f
Remove(f, n) == [m \in DOMAIN f \ {n} |-> f[m]]

\* A valid value of a scalar field.
RichScalar(fd) ==
    CASE fd.ty = "str" ->
            IF fd.name \in {"source_url", "url"} THEN Str_("https://example.com/ir")
            ELSE Str_("X Corp")
      [] fd.ty = "int" -> Int_(fd.ge)
      [] fd.ty = "float" -> Float_(fd.ge * Den + 1)
      [] fd.ty = "bool" -> Bool_(FALSE)
      [] fd.ty = "literal" -> CHOOSE v \in fd.lits : TRUE

\* The value a valid document gives field fd. Sub gives the documents of
\* the nested classes.
SampleValue(Sub(_, _), fd, all) ==
    CASE fd.ty = "model" -> Obj_(Sub(fd.sub, all))
      [] fd.ty = "list" ->
            IF fd.sub = "str" THEN List_(<<Str_("X Corp")>>)
            ELSE List_(<<Obj_(Sub(fd.sub, all))>>)
      [] OTHER -> RichScalar(fd)

\* A valid document of the fields fds: with every field present and every
\* list holding one element (all), or with the required fields only.
DocOf(Sub(_, _), fds, all) ==
    [n \in NamesOf({fd \in fds : all \/ fd.req}) |->
        SampleValue(Sub, Named(fds, n), all)]
DocWith(Sub(_, _), cls, all) == DocOf(Sub, Range(Fields(cls)), all)

\* The schema nests four levels deep: CompanyProfile > Financials >
\* FinancialRecord > FiscalPeriod.
NoDoc(cls, all) == <<>>
Doc0(cls, all) == DocWith(NoDoc, cls, all)
Doc1(cls, all) == DocWith(Doc0, cls, all)
Doc2(cls, all) == DocWith(Doc1, cls, all)
Doc3(cls, all) == DocWith(Doc2, cls, all)

\* The valid documents of every class: Docs[TRUE] rich, Docs[FALSE] minimal.
Docs == [all \in BOOLEAN |-> [c \in Classes |-> Doc3(c, all)]]

\* roe = 1.5 (the nearest multiple of 1/Den, above 1 for every Den >= 2).
OnePointFive == Float_((3 * Den) \div 2)

\* The one violation put in a document of class cls.
Put(n, v) == [n |-> n, drop |-> FALSE, v |-> v]
Drop(n) == [n |-> n, drop |-> TRUE, v |-> Null]
Fault(cls) ==
    CASE cls = "FinancialRecord" -> Put("roe", OnePointFive)
      [] cls = "CompanyBasic" -> Put("headquarters_pref", Str_("Tokyo"))
      [] cls = "GroupCompany" -> Put("ownership_ratio", Float_(Den + 1))
      [] cls = "SocialAccount" -> Put("platform", Str_("Mastodon"))
      [] cls = "FiscalPeriod" -> Put("fiscal_year", Int_(1899))
      [] cls = "SegmentRatio" -> Drop("ratio")
      [] cls = "SegmentAmount" -> Put("amount_yen", Float_(0 - 1))
      [] cls = "CompanyProfile" -> Put("confidence", Float_(Den + 1))
      [] OTHER -> Drop("name")
Faulty(f, fault) ==
    IF fault.drop THEN Remove(f, fault.n) ELSE Override(f, fault.n, fault.v)

\* A document of class cls with exactly one violating field: its own, or
\* one in the second record (Financials), in the first account
\* (Communications).
ViolatingDoc(docs, cls) ==
    CASE cls = "Financials" ->
            Override(docs[FALSE][cls], "records",
                     List_(<<Obj_(docs[TRUE]["FinancialRecord"]),
                             Obj_(Faulty(docs[FALSE]["FinancialRecord"],
                                         Fault("FinancialRecord")))>>))
      [] cls = "Communications" ->
            Override(docs[FALSE][cls], "social_accounts",
                     List_(<<Obj_(Faulty(docs[FALSE]["SocialAccount"],
                                         Fault("SocialAccount")))>>))
      [] OTHER -> Faulty(docs[FALSE][cls], Fault(cls))

\* The sample documents of every class.
SamplesOf(docs) ==
    [c \in Classes |-> [rich |-> docs[TRUE][c], minimal |-> docs[FALSE][c],
                        violating |-> ViolatingDoc(docs, c)]]
Samples == SamplesOf(Docs)
Rich(cls) == Samples[cls].rich
Minimal(cls) == Samples[cls].minimal
Violating(cls) == Samples[cls].violating

\* The values an input may put in field fd: the members, the bounds and
\* their neighbours, null, and values of other types; sub holds the sample
\* documents of the field's class.
Probes(fd, sub) ==
    {Null} \cup
    CASE fd.ty = "str" ->
            {Str_("X Corp"), Str_("http://example.com"),
             Str_("https://example.com/ir"), Str_("ir.example.com/report.pdf"),
             Int_(1234)}
      [] fd.ty = "int" ->
            {Int_(fd.ge - 1), Int_(fd.ge), Int_(fd.ge + 1), Str_("1234"),
             Str_("abc"), Float_(fd.ge * Den), Float_(fd.ge * Den + 1)}
            \cup (IF fd.hasLe THEN {Int_(fd.le), Int_(fd.le + 1)} ELSE {})
      [] fd.ty = "float" ->
            {Float_(fd.ge * Den - 1), Float_(fd.ge * Den),
             Float_(fd.ge * Den + 1), Int_(fd.ge), Int_(fd.ge - 1),
             Str_("1234"), Str_("abc")}
            \cup (IF fd.hasLe
                  THEN {Float_(fd.le * Den), Float_(fd.le * Den + 1),
                        Int_(fd.le), Int_(fd.le + 1)}
                  ELSE {Whole(1234)})
      [] fd.ty = "bool" ->
            {Bool_(TRUE), Bool_(FALSE), Int_(0), Int_(1), Int_(2),
             Str_("true"), Str_("abc")}
      [] fd.ty = "literal" ->
            fd.lits \cup {Str_("Tokyo"), Str_("prime"), Str_("1"), Int_(0),
                          Int_(5)}
      [] fd.ty = "model" ->
            {Obj_(sub.rich), Obj_(sub.minimal), Obj_(sub.violating),
             Obj_(<<>>), Str_("abc")}
      [] fd.ty = "list" ->
            IF fd.sub = "str"
            THEN {List_(<<>>), List_(<<Str_("X Corp")>>),
                  List_(<<Str_("X Corp"), Int_(1234)>>), Str_("abc")}
            ELSE {List_(<<>>), List_(<<Obj_(sub.rich)>>),
                  List_(<<Obj_(sub.rich), Obj_(sub.violating)>>),
                  List_(<<Obj_(sub.violating), Str_("abc")>>),
                  Obj_(sub.rich)}

\* The probes of every field of every class, and the base documents.
NoSamples == [rich |-> <<>>, minimal |-> <<>>, violating |-> <<>>]
ProbesOf(fd, samples) ==
    Probes(fd, IF fd.sub \in DOMAIN samples THEN samples[fd.sub] ELSE NoSamples)
ProbeTableOf(table, samples) ==
    [c \in DOMAIN table |->
        [n \in DOMAIN table[c] |-> ProbesOf(table[c][n], samples)]]
ProbeTable == ProbeTableOf(FieldTable, Samples)
BaseDocsOf(samples) ==
    [c \in DOMAIN samples |-> {Obj_(samples[c].minimal), Obj_(samples[c].rich)}]
BaseDocs == BaseDocsOf(Samples)

\* -------------------------------------------------------- task descriptor
\* The instruction text (an ASCII stand-in for the Japanese literal).
InstructionsText == "research the named Japanese company; output CompanyProfile JSON only"

\* Variant: a descriptor with another reasoning effort.
BuildTaskHighEffort ==
    [instructions |-> InstructionsText,
     response_format |-> "CompanyProfile",
     api_kwargs |-> [tools |-> <<[type |-> "web_search"]>>,
                     reasoning |-> [effort |-> "high"]]]

\* PreparedTask(instructions=..., response_format=CompanyProfile, api_kwargs=...)
BuildTask ==
    [instructions |-> InstructionsText,
     response_format |-> "CompanyProfile",
     api_kwargs |-> [tools |-> <<[type |-> "web_search"]>>,
                     reasoning |-> [effort |-> "medium"]]]

CompanyNames == {"Toyota Motor Corporation"}

\* ------------------------------------------------------------------ state
VARIABLES
    task,      \* the module-level PreparedTask
    request,   \* the last request handed to the external runtime, or Null
    phase,     \* idle, pending, input, validated, dumped, revalidated
    model,     \* the class whose model_validate is run
    document,  \* the document under validation
    edits,     \* number of fields of the base document overridden so far
    outcome,   \* outcome of the last model_validate
    source,    \* the instance that was serialised (phase dumped, revalidated)
    calls      \* SpecConc: the frame of each concurrent model_validate call

seqVars == <<request, phase, model, document, edits, outcome, source>>
vars == <<task, request, phase, model, document, edits, outcome, source,
          calls>>

NoResult == [ok |-> FALSE, value |-> Null, errors |-> <<>>]

CallIds == 1..NumCalls
IdleFrame ==
    [pc |-> "idle", doc |-> Null, i |-> 1, errs |-> <<>>, vals |-> <<>>,
     ids |-> <<>>, result |-> NoResult]

\* The state after the module is imported.
Init ==
    /\ task = BuildTask
    /\ request = Null
    /\ phase = "idle"
    /\ model = "CompanyProfile"
    /\ document = Null
    /\ edits = 0
    /\ outcome = NoResult
    /\ source = Null
    /\ calls = [c \in CallIds |-> IdleFrame]

\* The caller's company name is combined with the descriptor and submitted.
Request(name) ==
    /\ phase \in {"idle", "validated", "revalidated"}
    /\ request' = [instructions |-> task.instructions,
                   response_format |-> task.response_format,
                   api_kwargs |-> task.api_kwargs,
                   input |-> name]
    /\ phase' = "pending"
    /\ document' = Null
    /\ edits' = 0
    /\ outcome' = NoResult
    /\ source' = Null
    /\ UNCHANGED <<task, model, calls>>

\* The runtime returns a document; it, or one part of it, goes to the
\* model_validate of its class (every class of the schema is a BaseModel).
Receive(c, d) ==
    /\ phase = "pending"
    /\ model' = c
    /\ document' = d
    /\ phase' = "input"
    /\ UNCHANGED <<task, request, edits, outcome, source, calls>>

\* The producer put v in field n.
SetField(n, v) ==
    /\ phase = "input"
    /\ edits < MaxEdits
    /\ document' = Obj_(Override(document.f, n, v))
    /\ edits' = edits + 1
    /\ UNCHANGED <<task, request, phase, model, outcome, source, calls>>

\* The producer left field n out.
OmitField(n) ==
    /\ phase = "input"
    /\ edits < MaxEdits
    /\ n \in DOMAIN document.f
    /\ document' = Obj_(Remove(document.f, n))
    /\ edits' = edits + 1
    /\ UNCHANGED <<task, request, phase, model, outcome, source, calls>>

\* model.model_validate(document)
Validate ==
    /\ phase \in {"input", "dumped"}
    /\ outcome' = ModelValidate(model, document)
    /\ phase' = IF phase = "input" THEN "validated" ELSE "revalidated"
    /\ UNCHANGED <<task, request, model, document, edits, source, calls>>

\* instance.model_dump() of the instance just validated
Dump ==
    /\ phase = "validated"
    /\ outcome.ok
    /\ source' = outcome.value
    /\ document' = Serialize(outcome.value)
    /\ phase' = "dumped"
    /\ UNCHANGED <<task, request, model, edits, outcome, calls>>

Next ==
    \/ \E name \in CompanyNames : Request(name)
    \/ /\ phase = "pending"
       /\ \E c \in Classes : \E d \in BaseDocs[c] : Receive(c, d)
    \/ /\ phase = "input"
       /\ \E n \in FieldNames(model) : \E v \in ProbeTable[model][n] :
            SetField(n, v)
    \/ /\ phase = "input"
       /\ \E n \in FieldNames(model) : OmitField(n)
    \/ Validate
    \/ Dump

Spec == Init /\ [][Next]_vars

\* --------------------------------------------------- concurrent validation
\* Each call validates its own document field by field; the steps of
\* different calls interleave. A frame is the call's local state.
ConcDocsOf(samples) ==
    {Obj_(samples["CompanyProfile"].minimal),
     Obj_(samples["CompanyProfile"].rich),
     Obj_(samples["CompanyProfile"].violating),
     Obj_(<<>>),
     Obj_(Override(samples["CompanyProfile"].minimal, "financials",
                   Obj_(samples["Financials"].violating)))}
ConcDocs == ConcDocsOf(Samples)

\* Variant: one default object per field, made once and shared by the calls
\* (a mutable default in place of default_factory).
SharedObject(c, n) == <<0, n>>

\* default_factory is called anew for every instance: the object it returns
\* for field n of call c is that call's own.
FreshObject(c, n) == <<c, n>>

Start(c, d) ==
    /\ calls[c].pc = "idle"
    /\ calls' = [calls EXCEPT ![c] = [IdleFrame EXCEPT !.pc = "running",
                                                       !.doc = d]]
    /\ UNCHANGED <<task, seqVars>>

Step(c) ==
    LET fr == calls[c]
        fs == Fields("CompanyProfile")
    IN /\ fr.pc = "running"
       /\ fr.i <= Len(fs)
       /\ LET fd == fs[fr.i]
              h == FieldStep(fd, fr.doc.f, <<>>)
              made == fd.name \notin DOMAIN fr.doc.f /\ fd.def.k = "factory"
          IN calls' = [calls EXCEPT ![c] =
                    [fr EXCEPT !.i = fr.i + 1,
                               !.errs = fr.errs \o h.errs,
                               !.vals = (fd.name :> h.val) @@ fr.vals,
                               !.ids = IF made
                                       THEN (fd.name :> FreshObject(c, fd.name))
                                            @@ fr.ids
                                       ELSE fr.ids]]
       /\ UNCHANGED <<task, seqVars>>

Finish(c) ==
    LET fr == calls[c] IN
    /\ fr.pc = "running"
    /\ fr.i > Len(Fields("CompanyProfile"))
    /\ calls' = [calls EXCEPT ![c] =
            [fr EXCEPT !.pc = "done",
                       !.result =
                           IF Len(fr.errs) = 0
                           THEN [ok |-> TRUE,
                                 value |-> Model_("CompanyProfile", fr.vals),
                                 errors |-> <<>>]
                           ELSE [ok |-> FALSE, value |-> Null,
                                 errors |-> fr.errs]]]
    /\ UNCHANGED <<task, seqVars>>

NextConc ==
    \/ \E c \in CallIds : \E d \in ConcDocs : Start(c, d)
    \/ \E c \in CallIds : Step(c)
    \/ \E c \in CallIds : Finish(c)

SpecConc == Init /\ [][NextConc]_vars

\* ----------------------------------------------------------------- claims
HasError(loc, type) ==
    \E i \in 1..Len(outcome.errors) : outcome.errors[i] = Err(loc, type)
ErrorAt(loc) == \E i \in 1..Len(outcome.errors) : outcome.errors[i].loc = loc
Given(n) == n \in DOMAIN document.f

\* The closed-enumeration fields of the schema.
DeclaredEnumFields ==
    {<<c, n>> \in Classes \X UNION {FieldNames(c) : c \in Classes} :
        n \in FieldNames(c) /\ FieldOf(c, n).ty = "literal"}

\* C1: a closed-enumeration field accepts every member of its declared set
\* (and null where the field is optional) and rejects every other value with
\* a literal_error on the field; headquarters_pref = "Tokyo" is rejected.
\* The closed-enumeration fields are the ten the claim lists.
EnumsAreClosed ==
    /\ DeclaredEnumFields =
         {<<"CompanyBasic", "market">>, <<"CompanyBasic", "headquarters_pref">>,
          <<"CompanyBasic", "accounting_standard">>,
          <<"FiscalPeriod", "period_type">>, <<"FiscalPeriod", "quarter">>,
          <<"OrgSignal", "event_type">>, <<"SocialAccount", "platform">>,
          <<"GroupCompany", "relation_type">>, <<"GroupCompany", "market">>,
          <<"GroupCompany", "headquarters_pref">>}
    /\ phase = "validated" =>
         /\ \A n \in FieldNames(model) :
              (Given(n) /\ FieldOf(model, n).ty = "literal") =>
                 LET fd == FieldOf(model, n)
                     v == document.f[n]
                     member == v \in fd.lits \/ (fd.opt /\ v = Null)
                 IN /\ member => ~ErrorAt(<<n>>)
                    /\ ~member => /\ ~outcome.ok
                                  /\ HasError(<<n>>, "literal_error")
         /\ (/\ model = "CompanyProfile"
             /\ Given("basic")
             /\ document.f["basic"] = Obj_(Violating("CompanyBasic")))
            => /\ ~outcome.ok
               /\ HasError(<<"basic", "headquarters_pref">>, "literal_error")

EnumRejected ==
    /\ phase = "validated"
    /\ model = "CompanyBasic"
    /\ Given("headquarters_pref")
    /\ document.f["headquarters_pref"] = Str_("Tokyo")
    /\ ~outcome.ok
    /\ HasError(<<"headquarters_pref">>, "literal_error")

\* The inclusive bounds the specification lists, by field name.
StatedBound(n) ==
    CASE n = "ticker_code" -> [lo |-> 1000, hasHi |-> TRUE, hi |-> 9999]
      [] n = "founded_year" -> [lo |-> 1600, hasHi |-> TRUE, hi |-> 2100]
      [] n = "fiscal_year" -> [lo |-> 1900, hasHi |-> TRUE, hi |-> 2100]
      [] n = "fiscal_year_start_month" -> [lo |-> 1, hasHi |-> TRUE, hi |-> 12]
      [] n \in {"equity_ratio", "ownership_ratio", "confidence", "ratio"} ->
            [lo |-> 0, hasHi |-> TRUE, hi |-> 1]
      [] n \in {"roe", "roa"} -> [lo |-> 0 - 1, hasHi |-> TRUE, hi |-> 1]
      [] OTHER -> [lo |-> 0, hasHi |-> FALSE, hi |-> 0]

\* C2: a number inside the stated inclusive bounds of its field (the bounds
\* themselves included) is accepted and stored unchanged; a number below lo
\* or above hi makes validation fail with a range error on the field, and
\* no instance is returned (nothing is clamped); roe = 1.5 fails at
\* financials.records[1].roe.
NumericBoundsInclusive ==
    phase = "validated" =>
      /\ \A n \in FieldNames(model) :
           (/\ Given(n)
            /\ FieldOf(model, n).ty \in {"int", "float"}
            /\ document.f[n].k = FieldOf(model, n).ty) =>
              LET v == document.f[n]
                  unit == IF FieldOf(model, n).ty = "int" THEN 1 ELSE Den
                  b == StatedBound(n)
                  inside == /\ v.n >= b.lo * unit
                            /\ b.hasHi => v.n <= b.hi * unit
              IN /\ inside => /\ ~ErrorAt(<<n>>)
                              /\ outcome.ok => outcome.value.f[n] = v
                 /\ ~inside => /\ ~outcome.ok
                               /\ outcome.value = Null
                               /\ HasError(<<n>>, IF v.n < b.lo * unit
                                                  THEN "greater_than_equal"
                                                  ELSE "less_than_equal")
      /\ (/\ model = "CompanyProfile"
          /\ Given("financials")
          /\ document.f["financials"] = Obj_(Violating("Financials")))
         => /\ ~outcome.ok
            /\ HasError(<<"financials", "records", "1", "roe">>,
                        "less_than_equal")

RoeOutOfRange ==
    /\ phase = "validated"
    /\ model = "CompanyProfile"
    /\ Given("financials")
    /\ document.f["financials"] = Obj_(Violating("Financials"))
    /\ ~outcome.ok
    /\ HasError(<<"financials", "records", "1", "roe">>, "less_than_equal")

\* The minimal document and the instance the specification expects of it.
MinimalDocument == Obj_([basic |-> Obj_([company_name |-> Str_("X Corp")])])
MinimalProfile ==
    Model_("CompanyProfile",
      [basic |->
         Model_("CompanyBasic",
           [company_name |-> Str_("X Corp"), ticker_code |-> Null,
            market |-> Null, corporate_number |-> Null,
            headquarters_pref |-> Null, founded_year |-> Null,
            capital_yen |-> Null, employees_consolidated |-> Null,
            executives |-> List_(<<>>), accounting_standard |-> Null,
            fiscal_year_start_month |-> Null, source_url |-> Null]),
       financials |->
         Model_("Financials",
           [records |-> List_(<<>>), source_url |-> Null,
            last_verified_at |-> Null]),
       org_signals |-> List_(<<>>),
       communications |->
         Model_("Communications",
           [owned_media_urls |-> List_(<<>>), social_accounts |-> List_(<<>>),
            source_url |-> Null, last_verified_at |-> Null]),
       competitors |-> List_(<<>>),
       group_companies |-> List_(<<>>),
       source_url |-> Null,
       last_verified_at |-> Null,
       confidence |-> Null])

\* C3: the document with only basic.company_name validates; every omitted
\* optional scalar is null, every omitted list is empty, and financials and
\* communications are empty instances, not null.
MinimalDocumentDefaults ==
    (phase = "validated" /\ model = "CompanyProfile"
     /\ document = MinimalDocument)
    => outcome = [ok |-> TRUE, value |-> MinimalProfile, errors |-> <<>>]

MinimalValidated ==
    /\ phase = "validated"
    /\ model = "CompanyProfile"
    /\ document = MinimalDocument
    /\ outcome.ok
    /\ outcome.value.f["financials"].k = "model"

\* A field's value is a hard violation: required and missing, of another
\* type than declared, outside its range, or outside its enumeration.
WrongType(fd, v) ==
    /\ ~(fd.opt /\ v = Null)
    /\ CASE fd.ty = "str" -> v.k # "str"
         [] fd.ty = "int" -> v.k # "int"
         [] fd.ty = "float" -> v.k \notin {"float", "int"}
         [] fd.ty = "bool" -> v.k # "bool"
         [] fd.ty = "model" -> v.k # "obj"
         [] fd.ty = "list" -> v.k # "list"
         [] OTHER -> FALSE
OutOfRange(fd, v) ==
    /\ fd.ty \in {"int", "float"}
    /\ v.k = fd.ty
    /\ LET unit == IF fd.ty = "int" THEN 1 ELSE Den IN
       \/ fd.hasGe /\ v.n < fd.ge * unit
       \/ fd.hasLe /\ v.n > fd.le * unit
OutOfEnum(fd, v) ==
    fd.ty = "literal" /\ ~(fd.opt /\ v = Null) /\ v \notin fd.lits
HardViolation(c, f, n) ==
    LET fd == FieldOf(c, n) IN
    IF n \in DOMAIN f
    THEN WrongType(fd, f[n]) \/ OutOfRange(fd, f[n]) \/ OutOfEnum(fd, f[n])
    ELSE fd.req

\* C4 (as claimed): a document with hard violations is rejected as a whole
\* and the error result has an entry for every violating field.
AllViolationsReported ==
    phase = "validated" =>
      \A n \in FieldNames(model) :
         HardViolation(model, document.f, n) =>
            /\ ~outcome.ok
            /\ outcome.value = Null
            /\ ErrorAt(<<n>>)

\* Observed: a string given for an int field is converted, the document is
\* accepted and no entry is reported for the field.
StringTickerAccepted ==
    /\ phase = "validated"
    /\ model = "CompanyBasic"
    /\ Given("ticker_code")
    /\ document.f["ticker_code"] = Str_("1234")
    /\ HardViolation(model, document.f, "ticker_code")
    /\ outcome.ok
    /\ outcome.errors = <<>>

\* C5 (as claimed): a source_url is accepted only when null or beginning
\* with http:// or https://; any other string is rejected on its path.
SourceUrlChecked ==
    (phase = "validated" /\ "source_url" \in FieldNames(model)
     /\ Given("source_url") /\ document.f["source_url"].k = "str")
    => IF document.f["source_url"].s \in HttpStrings
       THEN ~ErrorAt(<<"source_url">>)
       ELSE ~outcome.ok /\ ErrorAt(<<"source_url">>)

\* Observed: a source_url without a scheme is accepted.
BareUrlAccepted ==
    /\ phase = "validated"
    /\ model = "Executive"
    /\ Given("source_url")
    /\ document.f["source_url"] = Str_("ir.example.com/report.pdf")
    /\ outcome.ok
    /\ outcome.value.f["source_url"] = Str_("ir.example.com/report.pdf")

\* C6 (as claimed): a FiscalPeriod is reported clean only when quarter is
\* null exactly when period_type is "annual".
FiscalPeriodConsistent ==
    (phase = "validated" /\ model = "FiscalPeriod" /\ outcome.ok)
    => (outcome.value.f["quarter"] = Null
        <=> outcome.value.f["period_type"] = Str_("annual"))

\* Observed: an annual period with a quarter, and a quarter period without
\* one, validate with no error.
AnnualWithQuarterAccepted ==
    /\ phase = "validated"
    /\ model = "FiscalPeriod"
    /\ outcome.ok
    /\ outcome.errors = <<>>
    /\ \/ /\ outcome.value.f["period_type"] = Str_("annual")
          /\ outcome.value.f["quarter"] = Int_(2)
       \/ /\ outcome.value.f["period_type"] = Str_("quarter")
          /\ outcome.value.f["quarter"] = Null

\* C7 (as claimed): a value of another type than the field declares is
\* reported and the document is invalid; nothing is converted and accepted.
NoCoercion ==
    phase = "validated" =>
      \A n \in FieldNames(model) :
         (Given(n) /\ WrongType(FieldOf(model, n), document.f[n])) =>
            /\ ~outcome.ok
            /\ ErrorAt(<<n>>)

\* Observed: the integer 1 given for a boolean field is stored as true.
IntegerStoredAsBool ==
    /\ phase = "validated"
    /\ model = "FinancialRecord"
    /\ Given("restated")
    /\ document.f["restated"] = Int_(1)
    /\ outcome.ok
    /\ outcome.value.f["restated"] = Bool_(TRUE)

\* C8: serialising a validated instance and validating the result succeeds
\* and gives the same instance, field for field.
RoundTrip ==
    phase = "revalidated" => /\ outcome.ok
                             /\ outcome.value = source

MinimalRoundTripped ==
    /\ phase = "revalidated"
    /\ model = "CompanyProfile"
    /\ source = MinimalProfile
    /\ outcome.ok
    /\ outcome.value = source

TaskIsConstant ==
    /\ task.instructions = InstructionsText
    /\ task.response_format = "CompanyProfile"
    /\ DOMAIN task = {"instructions", "response_format", "api_kwargs"}
    /\ DOMAIN task.api_kwargs = {"tools", "reasoning"}
    /\ task.api_kwargs.tools = <<[type |-> "web_search"]>>
    /\ task.api_kwargs.reasoning = [effort |-> "medium"]
    /\ (phase = "idle" => request = Null)

TaskAfterUse ==
    /\ phase = "revalidated"
    /\ request # Null
    /\ request.input = "Toyota Motor Corporation"
    /\ task.api_kwargs.reasoning.effort = "medium"
====
